---- MODULE Spec2Model ----
(***************************************************************************)
(* Base24 codec (src/lib.rs): 4 raw bytes <-> 7 symbols of the alphabet    *)
(* "ZAC2B3EF4GH5TK67P8RS9WXY".                                             *)
(*                                                                         *)
(* A char is modelled as its Unicode scalar value, a str as the sequence   *)
(* of its chars, a byte as a number in 0..255.  A u32 is modelled as a     *)
(* pair <<hi, lo>> of 16-bit limbs (value hi * 2^16 + lo), so that every   *)
(* 32-bit operation of the code keeps its width.                           *)
(***************************************************************************)
EXTENDS Integers, Sequences, FiniteSets, TLC

VARIABLES
    overflow_checks,  \* the build's overflow-checks setting (debug: TRUE, release: FALSE)
    first,            \* which of the two public functions the caller invokes first
    pc,               \* the caller's next call: "encode", "decode" or "done"
    data,             \* the byte slice handed to encode
    text,             \* the str handed to decode
    enc_res,          \* what encode returned
    dec_res           \* what decode returned

vars == <<overflow_checks, first, pc, data, text, enc_res, dec_res>>

\* ---------------------------------------------------------------- bounds

MaxDataLen == 5
MaxChunks == 2
MaxTextLen == 4
MaxGroups == 2

\* ---------------------------------------------------------------- results

None == [kind |-> "None"]
Ok(v) == [kind |-> "Ok", val |-> v]
EncodeInputLengthInvalid == [kind |-> "Err", err |-> "EncodeInputLengthInvalid"]
DecodeInputLengthInvalid == [kind |-> "Err", err |-> "DecodeInputLengthInvalid"]
DecodeUnsupportedCharacter(c) == [kind |-> "Err", err |-> "DecodeUnsupportedCharacter", char |-> c]
Panic(m) == [kind |-> "Panic", msg |-> m]

\* ---------------------------------------------------------------- sequences

RECURSIVE Concat(_)
Concat(ss) == IF ss = <<>> THEN <<>> ELSE Head(ss) \o Concat(Tail(ss))

Reverse(s) == [i \in 1..Len(s) |-> s[Len(s) + 1 - i]]

\* slice::chunks(n): consecutive pieces of n elements, the last one shorter
\* when the length is not a multiple of n.
Chunks(s, n) ==
    [k \in 1..((Len(s) + n - 1) \div n) |->
        SubSeq(s, (k - 1) * n + 1, IF k * n < Len(s) THEN k * n ELSE Len(s))]

\* ---------------------------------------------------------------- str and char

\* char::len_utf8
Utf8Len(c) == IF c < 128 THEN 1 ELSE IF c < 2048 THEN 2 ELSE IF c < 65536 THEN 3 ELSE 4

\* mutant of StrLen: the length counted in chars (chars().count())
CharCount(s) == Len(s)

\* str::len: the length in UTF-8 bytes
RECURSIVE StrLen(_)
StrLen(s) == IF s = <<>> THEN 0 ELSE Utf8Len(Head(s)) + StrLen(Tail(s))

\* str::char_indices: each char with the byte offset it starts at
CharIndices(s) == [i \in 1..Len(s) |-> <<StrLen(SubSeq(s, 1, i - 1)), s[i]>>]

\* str::to_lowercase, on the chars the alphabet is made of (ASCII)
CharToLowercase(c) == IF c >= 65 /\ c <= 90 THEN c + 32 ELSE c
ToLowercase(s) == [i \in 1..Len(s) |-> CharToLowercase(s[i])]

\* collect::<BTreeMap<K, V>>(): a later pair replaces an earlier one with the same key
Collect(pairs) ==
    [k \in {pairs[i][1] : i \in DOMAIN pairs} |->
        pairs[CHOOSE i \in DOMAIN pairs :
                /\ pairs[i][1] = k
                /\ \A j \in DOMAIN pairs : pairs[j][1] = k => j <= i][2]]

Swap(pairs) == [i \in DOMAIN pairs |-> <<pairs[i][2], pairs[i][1]>>]

\* ---------------------------------------------------------------- u32

Limb == 2 ^ 16

\* mutant of FromBeBytes: the chunk read little-endian (u32::from_le_bytes)
FromLeBytes(b) == <<b[4] * 256 + b[3], b[2] * 256 + b[1]>>

\* u32::from_be_bytes
FromBeBytes(b) == <<b[1] * 256 + b[2], b[3] * 256 + b[4]>>

\* mutant of ToBeBytes: the value written little-endian (u32::to_le_bytes)
ToLeBytes(v) == <<v[2] % 256, v[2] \div 256, v[1] % 256, v[1] \div 256>>

\* u32::to_be_bytes
ToBeBytes(v) == <<v[1] \div 256, v[1] % 256, v[2] \div 256, v[2] % 256>>

\* value as usize % m, for a small m
U32Rem(v, m) == ((v[1] % m) * Limb + v[2]) % m

\* value / m as u32, for a small m
U32Div(v, m) == <<v[1] \div m, ((v[1] % m) * Limb + v[2]) \div m>>

\* m * v in u32: the wrapped product and whether it overflowed
U32Mul(m, v) ==
    LET lo == m * v[2]
        hi == m * v[1] + lo \div Limb
    IN  [val |-> <<hi % Limb, lo % Limb>>, overflow |-> hi >= Limb]

\* v + k in u32: the wrapped sum and whether it overflowed
U32Add(v, k) ==
    LET lo == v[2] + k
        hi == v[1] + lo \div Limb
    IN  [val |-> <<hi % Limb, lo % Limb>>, overflow |-> hi >= Limb]

\* ---------------------------------------------------------------- Base24

\* "ZAC2B3EF4GH5TK67P8RS9WXY"
ALPHABET ==
    <<90, 65, 67, 50, 66, 51, 69, 70, 52, 71, 72, 53,
      84, 75, 54, 55, 80, 56, 82, 83, 57, 87, 88, 89>>

ALPHABET_LENGTH == StrLen(ALPHABET)

\* Base24::new
encode_map == Collect(CharIndices(ALPHABET))

decode_map ==
    Collect(Swap(CharIndices(ALPHABET)) \o Swap(CharIndices(ToLowercase(ALPHABET))))

\* mutant of EncodeLoop: `value` is never divided
EncodeLoopNoDiv(value, n) ==
    [out |-> [i \in 1..n |-> encode_map[U32Rem(value, ALPHABET_LENGTH)]], value |-> value]

\* the closure of encode's inner map, run n times from `value`: the chars
\* produced (least significant first) and what is left of `value`
RECURSIVE EncodeLoop(_, _)
EncodeLoop(value, n) ==
    IF n = 0 THEN [out |-> <<>>, value |-> value]
    ELSE LET idx == U32Rem(value, ALPHABET_LENGTH)
             rest == EncodeLoop(U32Div(value, ALPHABET_LENGTH), n - 1)
         IN  [out |-> <<encode_map[idx]>> \o rest.out, value |-> rest.value]

\* mutant of EncodeChunk: the digits are not reversed
EncodeChunkNoRev(chunk) == EncodeLoop(FromBeBytes(chunk), 7).out

\* one chunk of encode: its 7 symbols, most significant first
EncodeChunk(chunk) == Reverse(EncodeLoop(FromBeBytes(chunk), 7).out)

\* Base24::encode
encode(d) ==
    IF Len(d) % 4 # 0 THEN EncodeInputLengthInvalid
    ELSE LET chunks == Chunks(d, 4)
         IN  Ok(Concat([k \in DOMAIN chunks |-> EncodeChunk(chunks[k])]))

\* one step of decode's fold; st.panic is "" until the fold has panicked
FoldStep(st, kar, oc) ==
    IF st.panic # "" THEN st
    ELSE IF kar \notin DOMAIN decode_map
    THEN [acc |-> st.acc, panic |-> "unreachable", wrapped |-> st.wrapped]
    ELSE LET mul == U32Mul(ALPHABET_LENGTH, st.acc)
             add == U32Add(mul.val, decode_map[kar])
         IN  IF oc /\ mul.overflow
             THEN [acc |-> st.acc, panic |-> "attempt to multiply with overflow",
                   wrapped |-> st.wrapped]
             ELSE IF oc /\ add.overflow
             THEN [acc |-> st.acc, panic |-> "attempt to add with overflow",
                   wrapped |-> st.wrapped]
             ELSE [acc |-> add.val, panic |-> "",
                   wrapped |-> st.wrapped \/ mul.overflow \/ add.overflow]

\* chunks.iter().fold(0u32, ...)
RECURSIVE Fold(_, _, _)
Fold(st, chunk, oc) ==
    IF chunk = <<>> THEN st ELSE Fold(FoldStep(st, Head(chunk), oc), Tail(chunk), oc)

FoldChunk(chunk, oc) == Fold([acc |-> <<0, 0>>, panic |-> "", wrapped |-> FALSE], chunk, oc)

\* the pessimistic check: the first char of char_vec that decode_map lacks
Unsupported(char_vec) == {i \in DOMAIN char_vec : char_vec[i] \notin DOMAIN decode_map}
\* mutant of FirstUnsupported: the scan reports the last unsupported char
LastUnsupported(char_vec) ==
    char_vec[CHOOSE i \in Unsupported(char_vec) : \A j \in Unsupported(char_vec) : i >= j]

FirstUnsupported(char_vec) ==
    char_vec[CHOOSE i \in Unsupported(char_vec) : \A j \in Unsupported(char_vec) : i <= j]

\* Base24::decode
decode(s, oc) ==
    IF StrLen(s) % 7 # 0 THEN DecodeInputLengthInvalid
    ELSE IF Unsupported(s) # {} THEN DecodeUnsupportedCharacter(FirstUnsupported(s))
    ELSE LET chunks == Chunks(s, 7)
             folded == [k \in DOMAIN chunks |-> FoldChunk(chunks[k], oc)]
             panicked == {k \in DOMAIN folded : folded[k].panic # ""}
         IN  IF panicked # {}
             THEN Panic(folded[CHOOSE k \in panicked : \A j \in panicked : k <= j].panic)
             ELSE Ok(Concat([k \in DOMAIN folded |-> ToBeBytes(folded[k].acc)]))

\* ---------------------------------------------------------------- inputs

RECURSIVE SeqsUpTo(_, _)
SeqsUpTo(S, n) ==
    IF n = 0 THEN {<<>>}
    ELSE LET shorter == SeqsUpTo(S, n - 1)
         IN  shorter \cup {Append(s, x) : s \in {t \in shorter : Len(t) = n - 1}, x \in S}

RECURSIVE Joined(_, _)
Joined(S, n) ==
    IF n = 0 THEN {<<>>}
    ELSE LET shorter == Joined(S, n - 1)
         IN  shorter \cup {s \o x : s \in shorter, x \in S}

\* 0x00, 0x01, 0xFF
ByteVals == {0, 1, 255}

\* 00000000 00000001 00000018 88553311 7FFFFFFF 80000000 FFFFFFFF
SampleChunks ==
    { <<0, 0, 0, 0>>, <<0, 0, 0, 1>>, <<0, 0, 0, 24>>, <<136, 85, 51, 17>>,
      <<127, 255, 255, 255>>, <<128, 0, 0, 0>>, <<255, 255, 255, 255>> }

DataInputs == SeqsUpTo(ByteVals, MaxDataLen) \cup Joined(SampleChunks, MaxChunks)

\* 'Z' 'Y' 'y' 'O' U+00E9 U+1F60B
TextChars == {90, 89, 121, 79, 233, 128523}

SampleGroups ==
    { <<90, 90, 90, 90, 90, 90, 90>>,          \* ZZZZZZZ
      <<90, 90, 90, 90, 90, 90, 65>>,          \* ZZZZZZA
      <<53, 89, 69, 65, 84, 88, 65>>,          \* 5YEATXA
      <<88, 53, 71, 71, 66, 72, 55>>,          \* X5GGBH7  (2^32 - 1)
      <<120, 53, 103, 103, 98, 104, 55>>,      \* x5ggbh7
      <<88, 53, 103, 71, 98, 72, 55>>,         \* X5gGbH7
      <<88, 53, 71, 71, 66, 72, 80>>,          \* X5GGBHP  (2^32)
      <<89, 90, 90, 90, 90, 90, 90>>,          \* YZZZZZZ
      <<121, 121, 121, 121, 121, 121, 121>>,   \* yyyyyyy
      <<90, 90, 90, 90, 90, 90, 79>>,          \* ZZZZZZO
      <<90, 111, 90, 90, 79, 90, 90>>,         \* ZoZZOZZ
      <<90, 90, 90, 90, 90, 90, 128523>>,      \* ZZZZZZ(U+1F60B)
      <<233, 233, 233, 233, 233, 233, 233>> }  \* seven U+00E9

TextInputs == SeqsUpTo(TextChars, MaxTextLen) \cup Joined(SampleGroups, MaxGroups)

\* ---------------------------------------------------------------- the caller

Init ==
    /\ overflow_checks \in BOOLEAN
    /\ enc_res = None
    /\ dec_res = None
    /\ \/ first = "encode" /\ pc = "encode" /\ data \in DataInputs /\ text = <<>>
       \/ first = "decode" /\ pc = "decode" /\ text \in TextInputs /\ data = <<>>

\* pub fn encode(data); a caller that started from text then has its round trip
Encode ==
    /\ pc = "encode"
    /\ enc_res' = encode(data)
    /\ IF first = "encode" /\ enc_res'.kind = "Ok"
       THEN pc' = "decode" /\ text' = enc_res'.val
       ELSE pc' = "done" /\ text' = text
    /\ UNCHANGED <<overflow_checks, first, data, dec_res>>

\* pub fn decode(text); a caller that started from bytes then has its round trip
Decode ==
    /\ pc = "decode"
    /\ dec_res' = decode(text, overflow_checks)
    /\ IF first = "decode" /\ dec_res'.kind = "Ok"
       THEN pc' = "encode" /\ data' = dec_res'.val
       ELSE pc' = "done" /\ data' = data
    /\ UNCHANGED <<overflow_checks, first, text, enc_res>>

Next == Encode \/ Decode

Spec == Init /\ [][Next]_vars

\* ---------------------------------------------------------------- reference arithmetic

\* The properties below are stated against the radix-24 positional value of a
\* group, computed in unbounded arithmetic on little-endian base-256 numerals
\* of five digits (24^7 < 256^5), independently of the u32 operations above.

Range(s) == {s[i] : i \in DOMAIN s}

IsCanonical(c) == c \in Range(ALPHABET)
IsSymbol(c) == \E d \in DOMAIN ALPHABET : c = ALPHABET[d] \/ c = CharToLowercase(ALPHABET[d])
DigitOf(c) == (CHOOSE d \in DOMAIN ALPHABET : c = ALPHABET[d] \/ c = CharToLowercase(ALPHABET[d])) - 1

RECURSIVE BigMulAdd(_, _, _)
BigMulAdd(le, m, carry) ==
    IF le = <<>> THEN <<>>
    ELSE LET t == m * Head(le) + carry
         IN  <<t % 256>> \o BigMulAdd(Tail(le), m, t \div 256)

RECURSIVE BigHorner(_, _)
BigHorner(acc, group) ==
    IF group = <<>> THEN acc
    ELSE BigHorner(BigMulAdd(acc, 24, DigitOf(Head(group))), Tail(group))

\* sum of DigitOf(group[i]) * 24^(Len(group) - i)
BigValue(group) == BigHorner(<<0, 0, 0, 0, 0>>, group)

\* the value is below 2^32
FitsU32(group) == BigValue(group)[5] = 0

\* the big-endian bytes of the value mod 2^32
LowBeBytes(group) ==
    LET v == BigValue(group) IN <<v[4], v[3], v[2], v[1]>>

\* the little-endian numeral of a 4-byte big-endian chunk
BigOfChunk(chunk) == <<chunk[4], chunk[3], chunk[2], chunk[1], 0>>

Group(s, i) == SubSeq(s, 7 * (i - 1) + 1, 7 * i)
ByteChunk(d, i) == SubSeq(d, 4 * (i - 1) + 1, 4 * i)

AllSymbols(s) == \A i \in DOMAIN s : IsSymbol(s[i])
AllCanonical(s) == \A i \in DOMAIN s : IsCanonical(s[i])
AllFit(s) == \A i \in 1..(Len(s) \div 7) : FitsU32(Group(s, i))

\* the length of a text in UTF-8 bytes, counted from the code point ranges
Utf8Bytes(s) ==
    Len(s) + Cardinality({i \in DOMAIN s : s[i] >= 128})
           + Cardinality({i \in DOMAIN s : s[i] >= 2048})
           + Cardinality({i \in DOMAIN s : s[i] >= 65536})

HasNonAscii(s) == \E i \in DOMAIN s : s[i] >= 128

\* the left-most char of s that is no symbol of the alphabet, in either case
LeftmostForeign(s) ==
    s[CHOOSE i \in DOMAIN s : ~IsSymbol(s[i]) /\ \A j \in 1..(i - 1) : IsSymbol(s[j])]

\* decode's value on a text of 7k symbols, by the reference arithmetic
RefDecode(s) == Concat([i \in 1..(Len(s) \div 7) |-> LowBeBytes(Group(s, i))])

RECURSIVE DigitsLE(_, _)
DigitsLE(a, b) ==
    IF a = <<>> THEN TRUE
    ELSE IF DigitOf(Head(a)) # DigitOf(Head(b)) THEN DigitOf(Head(a)) < DigitOf(Head(b))
    ELSE DigitsLE(Tail(a), Tail(b))

\* "X5GGBH7", the numeral of 2^32 - 1
MaxGroup == <<88, 53, 71, 71, 66, 72, 55>>

Encoded == enc_res # None
Decoded == dec_res # None

\* ---------------------------------------------------------------- claims

\* C1: byte-side round trip. For every byte sequence whose length is a
\* multiple of 4 (the empty one included) encode succeeds, and decoding its
\* output succeeds and returns exactly the bytes encoded.
C1_ByteRoundTrip ==
    (first = "encode" /\ pc = "done" /\ Len(data) % 4 = 0)
        => /\ enc_res.kind = "Ok"
           /\ dec_res = Ok(data)

C1_Witness ==
    /\ first = "encode" /\ pc = "done"
    /\ Len(data) = 8 /\ data[1] = 255 /\ data[8] = 1
    /\ dec_res = Ok(data)

\* C2 as stated: text-side round trip for every canonical text of 7k symbols,
\* groups of value 2^32 or more included: decode succeeds and encoding its
\* result gives the text back.  Stated here for the build without overflow
\* checks, where decode returns for every such text.
C2_TextRoundTripAll ==
    (first = "decode" /\ pc = "done" /\ ~overflow_checks
       /\ AllCanonical(text) /\ Len(text) % 7 = 0)
        => /\ dec_res.kind = "Ok"
           /\ enc_res = Ok(text)

\* C2 amended: text-side round trip for every canonical text of 7k symbols
\* each of whose groups has a radix-24 value of at most 2^32 - 1: decode
\* succeeds and encoding its result gives the text back.
C2_TextRoundTripInRange ==
    (first = "decode" /\ pc = "done"
       /\ AllCanonical(text) /\ Len(text) % 7 = 0 /\ AllFit(text))
        => /\ dec_res.kind = "Ok"
           /\ enc_res = Ok(text)

C2_Witness ==
    /\ first = "decode" /\ pc = "done"
    /\ Len(text) = 14 /\ Group(text, 1) = MaxGroup /\ Group(text, 2) # MaxGroup
    /\ AllCanonical(text)
    /\ enc_res = Ok(text)

\* C3: decode never terminates abnormally. Every call returns Ok(bytes),
\* DecodeInputLengthInvalid or DecodeUnsupportedCharacter(c); neither the
\* 32-bit accumulation nor the unreachable!() branch aborts it.
C3_DecodeNeverAborts ==
    Decoded =>
        \/ dec_res.kind = "Ok"
        \/ dec_res = DecodeInputLengthInvalid
        \/ dec_res.kind = "Err" /\ dec_res.err = "DecodeUnsupportedCharacter"

\* C4: decode's length precondition counts code points. A call returns
\* DecodeInputLengthInvalid exactly when the number of chars of the text is
\* not a multiple of 7.
C4_LengthInCodePoints ==
    Decoded => (dec_res = DecodeInputLengthInvalid <=> Len(text) % 7 # 0)

C6_CaseInsensitive ==
    (Decoded /\ AllSymbols(text) /\ Len(text) % 7 = 0)
        => /\ dec_res.kind = "Ok"
           /\ dec_res.val = RefDecode(text)

\* C7: encode agrees with the reference. A length that is no multiple of 4
\* gives EncodeInputLengthInvalid; otherwise the result is Ok of
\* Len(data) / 4 * 7 canonical symbols whose i-th group of 7 is the
\* most-significant-first radix-24 numeral of the i-th big-endian chunk.
C7_EncodeReference ==
    Encoded =>
        IF Len(data) % 4 # 0
        THEN enc_res = EncodeInputLengthInvalid
        ELSE /\ enc_res.kind = "Ok"
             /\ Len(enc_res.val) = (Len(data) \div 4) * 7
             /\ AllCanonical(enc_res.val)
             /\ \A i \in 1..(Len(data) \div 4) :
                    BigValue(Group(enc_res.val, i)) = BigOfChunk(ByteChunk(data, i))

C7_Witness ==
    /\ Encoded
    /\ data = <<0, 0, 0, 0, 255, 255, 255, 255>>
    /\ enc_res = Ok(<<90, 90, 90, 90, 90, 90, 90>> \o MaxGroup)

\* C8: decode's value uses 32-bit wraparound on every valid input. For every
\* text of 7k symbols of the reverse table decode returns Ok of 4k bytes, the
\* i-th four being the big-endian bytes of the i-th group's value mod 2^32.
C8_DecodeWraps ==
    (Decoded /\ AllSymbols(text) /\ Utf8Bytes(text) % 7 = 0)
        => /\ dec_res.kind = "Ok"
           /\ Len(dec_res.val) = (Len(text) \div 7) * 4
           /\ \A i \in 1..(Len(text) \div 7) :
                  ByteChunk(dec_res.val, i) = LowBeBytes(Group(text, i))

C10_NoOverflowOnEncoded ==
    (Encoded /\ enc_res.kind = "Ok") =>
        \A i \in 1..(Len(data) \div 4) :
            LET group == Group(enc_res.val, i)
            IN  /\ EncodeLoop(FromBeBytes(ByteChunk(data, i)), 7).value = <<0, 0>>
                /\ AllCanonical(group) /\ Len(group) = 7
                /\ DigitsLE(group, MaxGroup)
                /\ group[1] # 89
                /\ FoldChunk(group, TRUE).panic = ""
                /\ ~FoldChunk(group, FALSE).wrapped

C10_Witness ==
    /\ first = "encode" /\ pc = "done" /\ overflow_checks
    /\ data = <<255, 255, 255, 255>>
    /\ enc_res = Ok(MaxGroup)
    /\ dec_res = Ok(data)

====
